---- MODULE Spec2Model ----
(***************************************************************************)
(* DynamicArray<int> and OrderedArray<int> of collageso/algorithms-cpp.     *)
(*                                                                         *)
(* One behaviour follows one container instance: Init constructs it (the   *)
(* default constructor or the initializer-list one) and every action is    *)
(* one call of a public member function, translated from its body.         *)
(*                                                                         *)
(* Memory.  `data` is the heap from the buffer's first slot on: slots      *)
(* 0..capacity-1 are the allocation `new T[capacity]`, the slots from      *)
(* capacity on lie behind it.  Junk is an indeterminate value: a slot that *)
(* was never written, or whose content the program cannot rely on.  An     *)
(* access outside the allocation is undefined behaviour; the outcomes the  *)
(* model draws from are: the process dies ("crash"), the store lands in    *)
(* the memory behind the buffer ("landed"), or it is lost there ("lost").  *)
(*                                                                         *)
(* size_t arithmetic is modulo SizeMod = 2^SizeBits, a scaled-down size_t: *)
(* what the code depends on is that 0 - 1 wraps to SizeMax and that a      *)
(* probe near SizeMax / 2 lies outside every buffer.  binarySearch is      *)
(* followed as written up to its first probe of a slot that holds no       *)
(* element; from there the call may die, never return ("hung"), or return  *)
(* any index.                                                              *)
(***************************************************************************)
EXTENDS Integers, Sequences, FiniteSets, TLC

VARIABLES kind, data, size, capacity, isAscending, status, last,
          arr, input, unsortedUntilIndex, sorted, loop_i, pc,
          outOfRange, wrappedBound

\* The state of the container under test.
arrayVars == <<kind, data, size, capacity, isAscending, status, last>>

\* The state of a call of bubbleSort: the vector arr, the vector as it was
\* handed in, the locals, the position in the body, and two records of what
\* the call has done: an access arr[k] with k >= arr.size(), a decrement of
\* unsortedUntilIndex at 0.
sortVars == <<arr, input, unsortedUntilIndex, sorted, loop_i, pc,
              outOfRange, wrappedBound>>

vars == <<kind, data, size, capacity, isAscending, status, last,
          arr, input, unsortedUntilIndex, sorted, loop_i, pc,
          outOfRange, wrappedBound>>

\* ---- bounds ------------------------------------------------------------
MaxValue == 3
MaxSize == 3
MaxInitLen == 3
MaxSortLen == 4
SizeBits == 6

Values == 1..MaxValue
Junk == MaxValue + 1
MemSlots == 2 * MaxSize
Slots == 0..(MemSlots - 1)
SizeMod == 2 ^ SizeBits
SizeMax == SizeMod - 1
\* The indexes a call is tried with: those below sz, sz and sz + 1.
Indexes(sz) == 0..(sz + 1)
Literals == UNION {[1..n -> Values] : n \in 0..MaxInitLen}

\* ---- raw memory ----------------------------------------------------------
\* data[i] as an rvalue; outside the modelled heap the content is unknown.
Read(m, i) == IF i \in Slots THEN m[i] ELSE Junk

\* What slot i holds after `data[i] = v` on a buffer of cap slots.
Stored(i, cap, v, landed) == IF i < cap \/ landed THEN v ELSE Junk

\* data[i] = v
Store(m, cap, i, v, landed) ==
  IF i \in Slots THEN [m EXCEPT ![i] = Stored(i, cap, v, landed)] ELSE m

\* A buffer fresh from new T[n]: nothing in it is initialized.
FreshBuffer == [i \in Slots |-> Junk]

\* std::copy(init.begin(), init.end(), data)
CopyInit(init) == [i \in Slots |-> IF i < Len(init) THEN init[i + 1] ELSE Junk]

\* resize(newCapacity): move the first sz elements into a new buffer.
resize(m, sz, newCapacity, landed) ==
  [i \in Slots |-> IF i < sz THEN Stored(i, newCapacity, Read(m, i), landed)
                   ELSE Junk]

\* Slots resize reads from the old buffer and writes to the new one.
ResizeAccesses(sz) == {i \in 0..SizeMax : i < sz}

\* for (size_t i = size; i > index; --i) data[i] = std::move(data[i - 1]);
ShiftRight(m, cap, sz, index, landed) ==
  [i \in Slots |-> IF index < i /\ i <= sz
                   THEN Stored(i, cap, Read(m, i - 1), landed)
                   ELSE m[i]]

ShiftRightWrites(sz, index) == {i \in 0..SizeMax : index < i /\ i <= sz}
ShiftRightReads(sz, index) == {i - 1 : i \in ShiftRightWrites(sz, index)}

\* for (size_t i = index; i < size - 1; ++i) data[i] = std::move(data[i + 1]);
ShiftLeft(m, cap, sz, index, landed) ==
  [i \in Slots |-> IF index <= i /\ i < (sz - 1) % SizeMod
                   THEN Stored(i, cap, Read(m, i + 1), landed)
                   ELSE m[i]]

ShiftLeftWrites(sz, index) ==
  {i \in 0..SizeMax : index <= i /\ i < (sz - 1) % SizeMod}
ShiftLeftReads(sz, index) == {i + 1 : i \in ShiftLeftWrites(sz, index)}

\* An access set leaves the allocation of cap slots.
OutOfBuffer(accesses, cap) == \E i \in accesses : i >= cap

\* The outcomes of a call: one when every access stayed inside the buffer.
Outcomes(oob) == IF oob THEN {"landed", "lost", "crash"} ELSE {"landed"}

\* The record of the last call.
Call(op, sig, idx, val, ret, oob) ==
  [op |-> op, sig |-> sig, idx |-> idx, val |-> val, ret |-> ret, oob |-> oob]

Running == status = "running"

\* The process died inside the call.
Crash(op, idx, val) ==
  /\ status' = "crashed"
  /\ last' = Call(op, "crash", idx, val, -1, TRUE)
  /\ UNCHANGED <<kind, data, size, capacity, isAscending>>

\* throw std::out_of_range("Index out of range")
Throw(op, idx, val) ==
  /\ last' = Call(op, "OutOfRange", idx, 0, -1, FALSE)
  /\ UNCHANGED <<kind, data, size, capacity, isAscending, status>>

\* ---- DynamicArray --------------------------------------------------------
\* The bound check off by one: index == size passes.
IndexOutOfRangeOffByOne(index, sz) == index > sz

\* getAt/setAt/remove: if (index >= size) throw
IndexOutOfRange(index, sz) == index >= sz

\* insert: if (index > size) throw
InsertOutOfRange(index, sz) == index > sz

\* insert: if (index >= capacity) resize(capacity * 2)
DynNeedsResize(index, sz, cap) == index >= cap

DynamicArray_getAt(index) ==
  /\ Running /\ kind = "dyn"
  /\ IF IndexOutOfRange(index, size) THEN Throw("getAt", index, 0)
     ELSE LET oob == OutOfBuffer({index}, capacity) IN
          \E o \in Outcomes(oob) :
            IF o = "crash" THEN Crash("getAt", index, 0)
            ELSE /\ last' = Call("getAt", "ok", index, 0, Read(data, index), oob)
                 /\ UNCHANGED <<kind, data, size, capacity, isAscending, status>>

DynamicArray_setAt(index, value) ==
  /\ Running /\ kind = "dyn"
  /\ IF IndexOutOfRange(index, size) THEN Throw("setAt", index, value)
     ELSE LET oob == OutOfBuffer({index}, capacity) IN
          \E o \in Outcomes(oob) :
            IF o = "crash" THEN Crash("setAt", index, value)
            ELSE /\ data' = Store(data, capacity, index, value, o = "landed")
                 /\ last' = Call("setAt", "ok", index, value, -1, oob)
                 /\ UNCHANGED <<kind, size, capacity, isAscending, status>>

\* The index of the first element equal to value, -1 when there is none.
RECURSIVE find(_, _, _, _)
find(m, sz, value, i) ==
  IF i >= sz THEN -1
  ELSE IF Read(m, i) = value THEN i
  ELSE find(m, sz, value, i + 1)

\* The slots find reads: up to and including the first match.
FindReads(m, sz, value) ==
  LET r == find(m, sz, value, 0) IN
  IF r = -1 THEN {i \in 0..SizeMax : i < sz} ELSE 0..r

DynamicArray_find(value) ==
  /\ Running /\ kind = "dyn"
  /\ LET oob == OutOfBuffer(FindReads(data, size, value), capacity) IN
     \E o \in Outcomes(oob) :
       IF o = "crash" THEN Crash("find", -1, value)
       ELSE /\ last' = Call("find", "ok", -1, value,
                            find(data, size, value, 0), oob)
            /\ UNCHANGED <<kind, data, size, capacity, isAscending, status>>

DynamicArray_insert(index, value) ==
  /\ Running /\ kind = "dyn"
  /\ IF InsertOutOfRange(index, size) THEN Throw("insert", index, value)
     ELSE
       /\ size < MaxSize
       /\ LET grow == DynNeedsResize(index, size, capacity)
              cap1 == IF grow THEN capacity * 2 ELSE capacity
              oob == \/ grow /\ OutOfBuffer(ResizeAccesses(size), capacity)
                     \/ grow /\ OutOfBuffer(ResizeAccesses(size), cap1)
                     \/ OutOfBuffer(ShiftRightWrites(size, index), cap1)
                     \/ OutOfBuffer(ShiftRightReads(size, index), cap1)
                     \/ OutOfBuffer({index}, cap1)
          IN \E o \in Outcomes(oob) :
               IF o = "crash" THEN Crash("insert", index, value)
               ELSE LET landed == (o = "landed")
                        m1 == IF grow THEN resize(data, size, cap1, landed)
                              ELSE data
                        m2 == ShiftRight(m1, cap1, size, index, landed)
                    IN /\ data' = Store(m2, cap1, index, value, landed)
                       /\ capacity' = cap1
                       /\ size' = size + 1
                       /\ last' = Call("insert", "ok", index, value, -1, oob)
                       /\ UNCHANGED <<kind, isAscending, status>>

\* remove(index): the body is the same in both classes.
remove(index) ==
  /\ Running
  /\ IF IndexOutOfRange(index, size) THEN Throw("remove", index, 0)
     ELSE LET oob == \/ OutOfBuffer(ShiftLeftWrites(size, index), capacity)
                     \/ OutOfBuffer(ShiftLeftReads(size, index), capacity)
          IN \E o \in Outcomes(oob) :
               IF o = "crash" THEN Crash("remove", index, 0)
               ELSE /\ data' = ShiftLeft(data, capacity, size, index, o = "landed")
                    /\ size' = size - 1
                    /\ last' = Call("remove", "ok", index, 0, -1, oob)
                    /\ UNCHANGED <<kind, capacity, isAscending, status>>

DynamicArray_remove(index) == kind = "dyn" /\ remove(index)

\* ---- OrderedArray --------------------------------------------------------
\* insert: if (size >= capacity) resize(capacity * 2)
OrdNeedsResize(sz, cap) == sz >= cap

\* The comparison with the direction flag ignored.
ProbeBeforeAscendingOnly(asc, x, value) == x < value

\* The branch of binarySearch that moves left: the probe orders before value.
ProbeBefore(asc, x, value) == (asc /\ x < value) \/ (~asc /\ x > value)

\* The while loop of binarySearch from the bounds (left, right) on.  ret is the
\* value returned; wrapped: a bound was computed below zero and wrapped to
\* SizeMax; reads: the slots probed; wild: a probe read a slot that holds no
\* element, from where on the code's behaviour is undefined.
RECURSIVE binarySearchLoop(_, _, _, _, _, _, _, _, _)
binarySearchLoop(m, sz, asc, value, isInsertion, left, right, wrapped, reads) ==
  IF left > right
  THEN [ret |-> IF isInsertion THEN left ELSE -1, wild |-> FALSE,
        wrapped |-> wrapped, reads |-> reads]
  ELSE LET mid == left + (right - left) \div 2
           x == Read(m, mid)
           probed == reads \cup {mid}
       IN IF mid >= sz \/ x = Junk
          THEN [ret |-> -1, wild |-> TRUE, wrapped |-> wrapped, reads |-> probed]
          ELSE IF x = value
          THEN [ret |-> mid, wild |-> FALSE, wrapped |-> wrapped, reads |-> probed]
          ELSE IF ProbeBefore(asc, x, value)
          THEN binarySearchLoop(m, sz, asc, value, isInsertion,
                                (mid + 1) % SizeMod, right, wrapped, probed)
          ELSE binarySearchLoop(m, sz, asc, value, isInsertion,
                                left, (mid - 1) % SizeMod,
                                wrapped \/ mid = 0, probed)

\* binarySearch(value, isInsertion): left = 0, right = size - 1 (a size_t).
binarySearch(m, sz, asc, value, isInsertion) ==
  binarySearchLoop(m, sz, asc, value, isInsertion,
                   0, (sz - 1) % SizeMod, sz = 0, {})

\* What a search that went wild may return, if it returns.
WildReturns(sz) == (-1)..sz

\* The call never returns.
Hang(op, idx, val) ==
  /\ status' = "hung"
  /\ last' = Call(op, "hang", idx, val, -1, TRUE)
  /\ UNCHANGED <<kind, data, size, capacity, isAscending>>

OrderedArray_get(index) ==
  /\ Running /\ kind = "ord"
  /\ IF IndexOutOfRange(index, size) THEN Throw("get", index, 0)
     ELSE LET oob == OutOfBuffer({index}, capacity) IN
          \E o \in Outcomes(oob) :
            IF o = "crash" THEN Crash("get", index, 0)
            ELSE /\ last' = Call("get", "ok", index, 0, Read(data, index), oob)
                 /\ UNCHANGED <<kind, data, size, capacity, isAscending, status>>

OrderedArray_find(value) ==
  /\ Running /\ kind = "ord"
  /\ LET r == binarySearch(data, size, isAscending, value, FALSE) IN
     IF ~r.wild
     THEN /\ last' = Call("find", "ok", -1, value, r.ret, FALSE)
          /\ UNCHANGED <<kind, data, size, capacity, isAscending, status>>
     ELSE \/ Crash("find", -1, value)
          \/ Hang("find", -1, value)
          \/ \E k \in WildReturns(size) :
               /\ last' = Call("find", "ok", -1, value, k, TRUE)
               /\ UNCHANGED <<kind, data, size, capacity, isAscending, status>>

\* The rest of insert once binarySearch returned index (an int): the shift loop
\* compares the size_t i with it, data[index] = value, ++size.
OrderedArray_place(m1, cap1, value, index, oobBefore, o) ==
  LET at == index % SizeMod
      oob == \/ oobBefore
             \/ OutOfBuffer(ShiftRightWrites(size, at), cap1)
             \/ OutOfBuffer(ShiftRightReads(size, at), cap1)
             \/ OutOfBuffer({at}, cap1)
  IN /\ oob \/ o = "landed"
     /\ IF o = "crash" THEN Crash("insert", index, value)
        ELSE /\ data' = Store(ShiftRight(m1, cap1, size, at, o = "landed"),
                              cap1, at, value, o = "landed")
             /\ capacity' = cap1
             /\ size' = size + 1
             /\ last' = Call("insert", "ok", index, value, index, oob)
             /\ UNCHANGED <<kind, isAscending, status>>

OrderedArray_insert(value) ==
  /\ Running /\ kind = "ord" /\ size < MaxSize
  /\ \E o \in {"landed", "lost", "crash"} :
       LET grow == OrdNeedsResize(size, capacity)
           cap1 == IF grow THEN capacity * 2 ELSE capacity
           oobGrow == \/ grow /\ OutOfBuffer(ResizeAccesses(size), capacity)
                      \/ grow /\ OutOfBuffer(ResizeAccesses(size), cap1)
           m1 == IF grow THEN resize(data, size, cap1, o = "landed") ELSE data
           r == binarySearch(m1, size, isAscending, value, TRUE)
       IN IF ~r.wild
          THEN OrderedArray_place(m1, cap1, value, r.ret, oobGrow, o)
          ELSE \/ o = "crash" /\ Crash("insert", -1, value)
               \/ o = "lost" /\ Hang("insert", -1, value)
               \/ \E k \in WildReturns(size) :
                    o # "crash" /\ OrderedArray_place(m1, cap1, value, k, TRUE, o)

OrderedArray_remove(index) == kind = "ord" /\ remove(index)

\* ---- construction --------------------------------------------------------
\* The comparator with the direction flag ignored.
SortBeforeAscendingOnly(asc, a, b) == a < b

\* The comparator handed to std::sort.
SortBefore(asc, a, b) == IF asc THEN a < b ELSE a > b

\* s with x put in front of the first element that x orders before.
RECURSIVE SortedInsert(_, _, _)
SortedInsert(asc, s, x) ==
  IF s = <<>> THEN <<x>>
  ELSE IF SortBefore(asc, x, Head(s)) THEN <<x>> \o s
  ELSE <<Head(s)>> \o SortedInsert(asc, Tail(s), x)

\* std::sort(data, data + size, comparator)
RECURSIVE SortList(_, _)
SortList(asc, s) ==
  IF s = <<>> THEN <<>>
  ELSE SortedInsert(asc, SortList(asc, Tail(s)), Head(s))

\* OrderedArray(bool ascending = true) : size(0), capacity(1)
OrderedArray_default(ascending) ==
  /\ kind = "ord" /\ size = 0 /\ capacity = 1 /\ data = FreshBuffer
  /\ isAscending = ascending

\* OrderedArray(std::initializer_list<T> init, bool ascending = true)
OrderedArray_fromList(init, ascending) ==
  /\ kind = "ord" /\ size = Len(init) /\ capacity = Len(init) * 2
  /\ data = CopyInit(SortList(ascending, init)) /\ isAscending = ascending

\* DynamicArray() : size(0), capacity(1)
DynamicArray_default ==
  /\ kind = "dyn" /\ size = 0 /\ capacity = 1 /\ data = FreshBuffer
  /\ isAscending = TRUE

\* DynamicArray(std::initializer_list<T> init)
DynamicArray_fromList(init) ==
  /\ kind = "dyn" /\ size = Len(init) /\ capacity = Len(init) * 2
  /\ data = CopyInit(init) /\ isAscending = TRUE

\* What the record of the last call holds after a constructor: the literal
\* the instance was built from, empty for the default constructors.
Constructed(op, init) ==
  [op |-> op, sig |-> "ok", idx |-> -1, val |-> 0, ret |-> -1, oob |-> FALSE,
   init |-> init]

\* for (auto x : array): the elements from begin() to end().
Traversal(m, sz) == [k \in 1..sz |-> Read(m, k - 1)]

\* bubbleSort before it is called on the vector a.
SortEntry(a) ==
  /\ arr = a /\ input = a
  /\ unsortedUntilIndex = 0 /\ sorted = FALSE /\ loop_i = 0
  /\ outOfRange = FALSE /\ wrappedBound = FALSE

Init ==
  /\ pc = "idle" /\ SortEntry(<<>>)
  /\ status = "running"
  /\ \/ DynamicArray_default /\ last = Constructed("ctor", <<>>)
     \/ \E init \in Literals :
          DynamicArray_fromList(init) /\ last = Constructed("ctorList", init)
     \/ \E ascending \in BOOLEAN :
          OrderedArray_default(ascending) /\ last = Constructed("ctor", <<>>)
     \/ \E init \in Literals, ascending \in BOOLEAN :
          /\ OrderedArray_fromList(init, ascending)
          /\ last = Constructed("ctorList", init)

Next ==
  \/ UNCHANGED sortVars /\ \E i \in Indexes(size - 1) : DynamicArray_getAt(i)
  \/ UNCHANGED sortVars /\ \E i \in Indexes(size - 1), v \in Values : DynamicArray_setAt(i, v)
  \/ UNCHANGED sortVars /\ \E v \in Values : DynamicArray_find(v)
  \/ UNCHANGED sortVars /\ \E i \in Indexes(size), v \in Values : DynamicArray_insert(i, v)
  \/ UNCHANGED sortVars /\ \E i \in Indexes(size - 1) : DynamicArray_remove(i)
  \/ UNCHANGED sortVars /\ \E i \in Indexes(size - 1) : OrderedArray_get(i)
  \/ UNCHANGED sortVars /\ \E v \in Values : OrderedArray_find(v)
  \/ UNCHANGED sortVars /\ \E v \in Values : OrderedArray_insert(v)
  \/ UNCHANGED sortVars /\ \E i \in Indexes(size - 1) : OrderedArray_remove(i)

Spec == Init /\ [][Next]_vars

\* ---- bubbleSort ----------------------------------------------------------
\* The vectors bubbleSort is called on.
SortInputs == UNION {[1..n -> Values] : n \in 0..MaxSortLen}

\* arr[k] of the vector a, k counted from 0.
At(a, k) == a[k + 1]

\* std::swap(arr[k], arr[k + 1])
Swap(a, k) == [a EXCEPT ![k + 1] = a[k + 2], ![k + 2] = a[k + 1]]

\* The pass condition with the bound itself included.
PassContinuesInclusive(k, bound) == k <= bound

\* for (...; i < unsortedUntilIndex; ...)
PassContinues(k, bound) == k < bound

\* if (arr.empty()) return; size_t unsortedUntilIndex = arr.size() - 1;
\* bool sorted = false;
bubbleSort_entry ==
  /\ pc = "entry"
  /\ IF Len(arr) = 0
     THEN pc' = "done" /\ UNCHANGED <<unsortedUntilIndex, sorted>>
     ELSE /\ unsortedUntilIndex' = (Len(arr) - 1) % SizeMod
          /\ sorted' = FALSE
          /\ pc' = "while"
  /\ UNCHANGED <<arr, input, loop_i, outOfRange, wrappedBound>>
  /\ UNCHANGED arrayVars

\* while (!sorted) { sorted = true; for (size_t i = 0; ...
bubbleSort_while ==
  /\ pc = "while"
  /\ IF sorted
     THEN pc' = "done" /\ UNCHANGED <<sorted, loop_i>>
     ELSE sorted' = TRUE /\ loop_i' = 0 /\ pc' = "for"
  /\ UNCHANGED <<arr, input, unsortedUntilIndex, outOfRange, wrappedBound>>
  /\ UNCHANGED arrayVars

\* The test of the for loop.
bubbleSort_for ==
  /\ pc = "for"
  /\ pc' = IF PassContinues(loop_i, unsortedUntilIndex) THEN "body" ELSE "dec"
  /\ UNCHANGED <<arr, input, unsortedUntilIndex, sorted, loop_i, outOfRange,
                 wrappedBound>>
  /\ UNCHANGED arrayVars

\* if (arr[i] > arr[i + 1]) { std::swap(arr[i], arr[i + 1]); sorted = false; }
\* ++i.  operator[] with an index >= arr.size() is undefined: the call may
\* fault, or compare and swap with whatever lies behind the vector.
bubbleSort_body ==
  /\ pc = "body"
  /\ IF loop_i + 1 < Len(arr)
     THEN /\ IF At(arr, loop_i) > At(arr, loop_i + 1)
             THEN arr' = Swap(arr, loop_i) /\ sorted' = FALSE
             ELSE UNCHANGED <<arr, sorted>>
          /\ loop_i' = (loop_i + 1) % SizeMod
          /\ pc' = "for"
          /\ UNCHANGED outOfRange
     ELSE /\ outOfRange' = TRUE
          /\ \/ pc' = "fault" /\ UNCHANGED <<arr, sorted, loop_i>>
             \/ \E x \in 0..Junk, swapped \in BOOLEAN :
                  /\ arr' = IF swapped /\ loop_i < Len(arr)
                            THEN [arr EXCEPT ![loop_i + 1] = x] ELSE arr
                  /\ sorted' = IF swapped THEN FALSE ELSE sorted
                  /\ loop_i' = (loop_i + 1) % SizeMod
                  /\ pc' = "for"
  /\ UNCHANGED <<input, unsortedUntilIndex, wrappedBound>>
  /\ UNCHANGED arrayVars

\* --unsortedUntilIndex;
bubbleSort_dec ==
  /\ pc = "dec"
  /\ unsortedUntilIndex' = (unsortedUntilIndex - 1) % SizeMod
  /\ wrappedBound' = (wrappedBound \/ unsortedUntilIndex = 0)
  /\ pc' = "while"
  /\ UNCHANGED <<arr, input, sorted, loop_i, outOfRange>>
  /\ UNCHANGED arrayVars

\* A call of bubbleSort on any vector; no container is involved.
InitSort ==
  /\ pc = "entry" /\ \E a \in SortInputs : SortEntry(a)
  /\ status = "running"
  /\ DynamicArray_default /\ last = Constructed("ctor", <<>>)

NextSort ==
  \/ bubbleSort_entry
  \/ bubbleSort_while
  \/ bubbleSort_for
  \/ bubbleSort_body
  \/ bubbleSort_dec

\* The call is one thread that runs until it returns: a step that can be
\* taken is taken.
SpecSort == InitSort /\ [][NextSort]_vars /\ WF_vars(NextSort)

\* ---- vocabulary of the properties ---------------------------------------
\* Every element below sz is a value the program stored.
Live(m, sz) == \A i \in 0..(sz - 1) : Read(m, i) \in Values

\* a may stand before b under the direction.
InOrder(asc, a, b) == IF asc THEN a <= b ELSE a >= b

Sorted(m, sz, asc) ==
  \A i, j \in 0..(sz - 1) : i < j => InOrder(asc, Read(m, i), Read(m, j))

SortedLive(m, sz, asc) == Live(m, sz) /\ Sorted(m, sz, asc)

Present(m, sz, v) == \E i \in 0..(sz - 1) : Read(m, i) = v

\* The smallest index holding v, -1 when no element is v.
FirstIndex(m, sz, v) ==
  IF Present(m, sz, v)
  THEN CHOOSE i \in 0..(sz - 1) :
         Read(m, i) = v /\ \A j \in 0..(i - 1) : Read(m, j) # v
  ELSE -1

\* ---- C1 ------------------------------------------------------------------
\* C1: in every state reachable from either constructor by insert, remove and
\* setAt calls, of DynamicArray and of OrderedArray, size <= capacity.
C1_SizeWithinCapacity == size <= capacity

\* ---- C2 ------------------------------------------------------------------
\* C2: capacity never decreases; an insert doubles it exactly when
\* size == capacity held just before the insert, and every other insert and
\* every other call leaves it unchanged.
C2_DoublesExactlyOnOverflow ==
  [][ /\ capacity' >= capacity
      /\ (last'.op = "insert" /\ last'.sig = "ok")
           => /\ (size = capacity) => capacity' = 2 * capacity
              /\ (size # capacity) => capacity' = capacity
      /\ (last'.op # "insert") => capacity' = capacity ]_vars

\* ---- C3 ------------------------------------------------------------------
\* C3: DynamicArray.insert(index, value) with index in [0, size] succeeds,
\* size grows by exactly 1 and getAt(index) == value afterwards.
C3_InsertPlacesValue ==
  [][ (kind = "dyn" /\ last'.op = "insert" /\ last'.idx <= size)
        => /\ last'.sig = "ok"
           /\ size' = size + 1
           /\ Read(data', last'.idx) = last'.val ]_vars

\* ---- C4 ------------------------------------------------------------------
\* C4: in both containers remove(index) with index < size takes 1 from size,
\* leaves the elements below index alone and moves every element above index
\* one position down, its value unchanged.
C4_RemoveShiftsDown ==
  [][ (last'.op = "remove" /\ last'.idx < size)
        => /\ last'.sig = "ok"
           /\ size' = size - 1
           /\ \A j \in 0..(size - 1) :
                /\ j < last'.idx => Read(data', j) = Read(data, j)
                /\ j > last'.idx => Read(data', j - 1) = Read(data, j) ]_vars

\* ---- C5 ------------------------------------------------------------------
\* C5: OrderedArray keeps its elements ordered under its direction (equal
\* elements allowed) after construction and any insert and remove calls.
C5_SortInvariant ==
  kind = "ord" => Sorted(data, size, isAscending)

\* ---- C6 ------------------------------------------------------------------
\* C6: OrderedArray.find(value) on sorted content of any size returns an index
\* k < size with get(k) == value when some element equals value, and -1 when
\* none does.
C6_FindOnSorted ==
  (kind = "ord" /\ last.op = "find" /\ SortedLive(data, size, isAscending))
    => /\ last.sig = "ok"
       /\ IF Present(data, size, last.val)
          THEN last.ret \in 0..(size - 1) /\ Read(data, last.ret) = last.val
          ELSE last.ret = -1

\* ---- C7 ------------------------------------------------------------------
\* C7: DynamicArray.find(value) returns the smallest index whose element is
\* value, -1 when there is none, and changes neither size, capacity nor
\* contents.
C7_FindFirst ==
  [][ (kind = "dyn" /\ last'.op = "find")
        => /\ last'.sig = "ok"
           /\ last'.ret = FirstIndex(data, size, last'.val)
           /\ UNCHANGED <<data, size, capacity>> ]_vars

\* ---- C8 ------------------------------------------------------------------
\* The call just made was handed an index outside its bound: index >= size
\* for getAt, setAt, get and remove, index > size for DynamicArray.insert.
BoundViolated ==
  \/ last'.op \in {"getAt", "setAt", "get", "remove"} /\ last'.idx >= size
  \/ kind = "dyn" /\ last'.op = "insert" /\ last'.idx > size

\* C8: a call with an index outside its bound signals OutOfRange and leaves
\* size, capacity and every element as they were.
C8_FailFast ==
  [][ BoundViolated
        => /\ last'.sig = "OutOfRange"
           /\ UNCHANGED <<data, size, capacity, status>> ]_vars

\* C8 witness: a call on a container holding elements was refused.
C8_Witness ==
  /\ last.sig = "OutOfRange" /\ last.op = "remove" /\ size >= 2
  /\ Live(data, size)

\* ---- C9 ------------------------------------------------------------------
\* C9: on an empty OrderedArray the binary search wraps no boundary and reads
\* no element, the insertion-point search returns 0 and the membership search
\* -1; insert(value) then yields size 1 with get(0) == value.
C9_EmptySearchSafe ==
  kind = "ord" =>
    /\ size = 0 =>
         \A v \in Values :
           LET ins == binarySearch(data, size, isAscending, v, TRUE)
               mem == binarySearch(data, size, isAscending, v, FALSE)
           IN /\ ~ins.wrapped /\ ins.reads = {} /\ ~ins.wild /\ ins.ret = 0
              /\ ~mem.wrapped /\ mem.reads = {} /\ ~mem.wild /\ mem.ret = -1
    /\ (last.op = "insert" /\ size = 0) => FALSE
    /\ (last.op = "insert" /\ last.sig = "ok" /\ size = 1)
         => Read(data, 0) = last.val

\* ---- C10 -----------------------------------------------------------------
\* C10: when elements equal to value are present, the insertion-point search
\* returns the index of the leftmost of them.
C10_LeftmostTieBreak ==
  (kind = "ord" /\ SortedLive(data, size, isAscending))
    => \A v \in Values :
         Present(data, size, v)
           => binarySearch(data, size, isAscending, v, TRUE).ret
                = FirstIndex(data, size, v)

\* C10 as amended: when elements equal to value are present in sorted content,
\* the insertion-point search stays inside the buffer and returns the index of
\* an element equal to value, the first one the bisection probes; an insert
\* that stayed inside its buffer has put value at the index it reports.
C10_SomeEqualElement ==
  /\ (kind = "ord" /\ SortedLive(data, size, isAscending))
       => \A v \in Values :
            Present(data, size, v)
              => LET r == binarySearch(data, size, isAscending, v, TRUE)
                 IN /\ ~r.wild /\ ~r.wrapped
                    /\ r.ret \in 0..(size - 1)
                    /\ Read(data, r.ret) = v
                    /\ r.reads \subseteq 0..(size - 1)
  /\ (kind = "ord" /\ last.op = "insert" /\ last.sig = "ok" /\ ~last.oob)
       => Read(data, last.idx) = last.val

\* C10 witness: sorted content with a run of equal elements in which the
\* search settles on an element that is not the leftmost of the run.
C10_Witness ==
  /\ kind = "ord" /\ SortedLive(data, size, isAscending)
  /\ \E v \in Values :
       /\ Present(data, size, v)
       /\ binarySearch(data, size, isAscending, v, TRUE).ret
            > FirstIndex(data, size, v)

\* ---- C11 -----------------------------------------------------------------
\* How often v occurs in the sequence s.
Count(s, v) == Cardinality({k \in 1..Len(s) : s[k] = v})

\* C11: an instance built from a literal L has size == |L| and
\* capacity >= |L|; its traversal is L in the original order for DynamicArray
\* and L sorted under the requested direction for OrderedArray (the same
\* elements, as often, in order).
C11_FromLiteral ==
  last.op = "ctorList" =>
    LET t == Traversal(data, size) IN
    /\ size = Len(last.init)
    /\ capacity >= Len(last.init)
    /\ kind = "dyn" => t = last.init
    /\ kind = "ord" =>
         /\ SortedLive(data, size, isAscending)
         /\ \A v \in Values : Count(t, v) = Count(last.init, v)

\* C11 witness: a descending OrderedArray built from an unsorted literal with
\* a duplicate.
C11_Witness ==
  /\ last.op = "ctorList" /\ kind = "ord" /\ ~isAscending
  /\ Len(last.init) = 3 /\ Traversal(data, size) # last.init
  /\ \E v \in Values : Count(last.init, v) = 2

\* ---- C12 -----------------------------------------------------------------
\* C12: every instance, from either constructor, has capacity >= 1 in every
\* reachable state, so that doubling yields a capacity above the size.
C12_CapacityAtLeastOne == capacity >= 1

\* ---- C13 -----------------------------------------------------------------
\* C13: DynamicArray.insert(index, value) with index <= size keeps every
\* other element: those below index stay where they were and those at
\* j in [index, size) are at j + 1 afterwards, also when the buffer is
\* reallocated (Scenario A: insert(0,5), insert(1,7), insert(0,3) on an empty
\* array gives 3, 5, 7).
C13_InsertKeepsOthers ==
  [][ (kind = "dyn" /\ last'.op = "insert" /\ last'.idx <= size
         /\ Live(data, size))
        => /\ last'.sig = "ok"
           /\ \A j \in 0..(size - 1) :
                /\ j < last'.idx => Read(data', j) = Read(data, j)
                /\ j >= last'.idx => Read(data', j + 1) = Read(data, j) ]_vars

\* ---- C14 -----------------------------------------------------------------
\* C14: OrderedArray.insert(value) on sorted content adds exactly 1 to size,
\* and the traversal afterwards is the one before with value put in at a
\* single position p in [0, old size], where get(p) == value.
C14_OrderedInsertAddsOne ==
  [][ (kind = "ord" /\ last'.op = "insert"
         /\ SortedLive(data, size, isAscending))
        => /\ last'.sig = "ok"
           /\ size' = size + 1
           /\ \E p \in 0..size :
                /\ Read(data', p) = last'.val
                /\ \A j \in 0..(size - 1) :
                     Read(data', IF j < p THEN j ELSE j + 1) = Read(data, j)
    ]_vars

\* ---- C15 -----------------------------------------------------------------
\* value orders strictly before (after) every element under the direction.
StrictlyBeforeAll(m, sz, asc, v) ==
  \A i \in 0..(sz - 1) : IF asc THEN v < Read(m, i) ELSE v > Read(m, i)

StrictlyAfterAll(m, sz, asc, v) ==
  \A i \in 0..(sz - 1) : IF asc THEN v > Read(m, i) ELSE v < Read(m, i)

\* C15: on a non-empty sorted OrderedArray (a single element included) the
\* insertion-point search returns 0 for a value strictly before every element
\* and size for a value strictly after every element; no boundary wraps below
\* zero and only indices below size are read.
C15_ExtremesSafe ==
  (kind = "ord" /\ size >= 1 /\ SortedLive(data, size, isAscending))
    => \A v \in Values :
         LET r == binarySearch(data, size, isAscending, v, TRUE) IN
         /\ StrictlyBeforeAll(data, size, isAscending, v)
              => /\ ~r.wrapped /\ ~r.wild /\ r.ret = 0
                 /\ r.reads \subseteq 0..(size - 1)
         /\ StrictlyAfterAll(data, size, isAscending, v)
              => /\ ~r.wrapped /\ ~r.wild /\ r.ret = size
                 /\ r.reads \subseteq 0..(size - 1)

\* ---- C16 -----------------------------------------------------------------
\* C16: every operation terminates: no call is left running for ever, and the
\* loop of binarySearch makes no more iterations than there are elements.
C16_Terminates ==
  /\ status # "hung"
  /\ kind = "ord" =>
       \A v \in Values, isInsertion \in BOOLEAN :
         LET r == binarySearch(data, size, isAscending, v, isInsertion) IN
         ~r.wild /\ Cardinality(r.reads) <= size

\* ---- C17 -----------------------------------------------------------------
\* C17: every element a call reads is at an index below size and every
\* element it writes at an index below the capacity of the current buffer:
\* no call has touched memory behind its buffer.
C17_AccessesInBuffer == ~last.oob

\* ---- C18 -----------------------------------------------------------------
\* a is in ascending order.
Ascending(a) == \A k \in 1..(Len(a) - 1) : a[k] <= a[k + 1]

\* a holds the elements of b, each as often.
Permutation(a, b) ==
  Len(a) = Len(b) /\ \A v \in Values : Count(a, v) = Count(b, v)

\* C18: bubbleSort(arr) returns for every input and leaves arr an ascending
\* permutation of the input; every access arr[i], arr[i + 1] has
\* i + 1 < arr.size(); once unsortedUntilIndex has been decremented at 0 it is
\* not used again: the while loop exits.
C18_BubbleSort ==
  /\ [](pc = "done" => Ascending(arr) /\ Permutation(arr, input))
  /\ [](~outOfRange /\ pc # "fault")
  /\ [](wrappedBound => pc = "done" \/ (pc = "while" /\ sorted))
  /\ <>(pc = "done")

\* C18 witness: the call has returned from an input that needed every pass, so
\* that the last decrement took unsortedUntilIndex below zero.
C18_Witness ==
  /\ pc = "done" /\ Len(input) = MaxSortLen /\ arr # input /\ wrappedBound
  /\ \E v \in Values : Count(input, v) = 2
====
